---- MODULE Spec2Model ----
(***************************************************************************)
(* Model of converter.py: the PNG -> SVG command (main) and the pipeline   *)
(* orchestrator (convert_to_svg) with the preprocessor (preprocess_image). *)
(*                                                                         *)
(* Paths are sequences of one-character strings so that str.replace,       *)
(* os.path.dirname, basename, splitext and join are computed as Python     *)
(* computes them.  The empty sequence stands for both None and "" (the     *)
(* code only tests these values for truthiness).                           *)
(*                                                                         *)
(* The three libraries are opaque: Image.open, rembg.remove, Image.save    *)
(* and vtracer either succeed or raise; os.makedirs may raise.  os.remove  *)
(* of a file that exists succeeds; it raises only when the file is gone.   *)
(* Output to stdout is not modelled.                                       *)
(***************************************************************************)
EXTENDS Integers, Sequences, FiniteSets, TLC

(* ------------------------------ paths ---------------------------------- *)

Slash == "/"
Dot == "."
DotPng == <<".", "p", "n", "g">>
TempPng == <<"_", "t", "e", "m", "p", ".", "p", "n", "g">>
DotSvg == <<".", "s", "v", "g">>
None == <<>>

\* str.replace(old, new): every non-overlapping occurrence, left to right
RECURSIVE Replace(_, _, _)
Replace(s, old, new) ==
    IF Len(s) < Len(old) THEN s
    ELSE IF SubSeq(s, 1, Len(old)) = old
         THEN new \o Replace(SubSeq(s, Len(old) + 1, Len(s)), old, new)
         ELSE <<Head(s)>> \o Replace(Tail(s), old, new)

\* str.rfind of a single character, 1-based; 0 when absent
RFind(s, c) ==
    LET hits == {i \in 1..Len(s) : s[i] = c}
    IN IF hits = {} THEN 0 ELSE CHOOSE i \in hits : \A j \in hits : j <= i

\* str.rstrip('/')
RECURSIVE RStripSlash(_)
RStripSlash(s) ==
    IF s # <<>> /\ s[Len(s)] = Slash THEN RStripSlash(SubSeq(s, 1, Len(s) - 1)) ELSE s

\* posixpath.dirname
Dirname(p) ==
    LET head == SubSeq(p, 1, RFind(p, Slash))
    IN IF head # <<>> /\ (\E i \in 1..Len(head) : head[i] # Slash)
       THEN RStripSlash(head) ELSE head

\* posixpath.basename
Basename(p) == SubSeq(p, RFind(p, Slash) + 1, Len(p))

\* os.path.splitext(p)[0]: the extension starts at the last dot of the last
\* component, unless only dots precede it there
SplitextRoot(p) ==
    LET sepIndex == RFind(p, Slash)
        dotIndex == RFind(p, Dot)
    IN IF dotIndex > sepIndex
          /\ \E i \in (sepIndex + 1)..(dotIndex - 1) : p[i] # Dot
       THEN SubSeq(p, 1, dotIndex - 1) ELSE p

\* posixpath.join of two components
Join(a, b) ==
    IF b # <<>> /\ b[1] = Slash THEN b
    ELSE IF a = <<>> \/ a[Len(a)] = Slash THEN a \o b
    ELSE a \o <<Slash>> \o b

\* temp_file = input_path.replace('.png', '_temp.png')
StagedPath(input_path) == Replace(input_path, DotPng, TempPng)

\* output path derived by main from --output-dir and the input name
DerivedOutput(output_dir, input) ==
    Join(output_dir, SplitextRoot(Basename(input)) \o DotSvg)

(* ------------------------- the scenario's files ------------------------- *)

InLower == <<"a", ".", "p", "n", "g">>
InUpper == <<"b", ".", "P", "N", "G">>
InNested == <<"d", ".", "p", "n", "g", "/", "c", ".", "p", "n", "g">>
InMissing == <<"m", ".", "p", "n", "g">>
NestedDir == <<"d", ".", "p", "n", "g">>
OutFile == <<"o", ".", "s", "v", "g">>
OutInDir == <<"s", "/", "o", ".", "s", "v", "g">>
OutDir == <<"t">>

ExistingInputs == {InLower, InUpper, InNested}
Inputs == ExistingInputs \cup {InMissing}
OutputArgs == {None, OutFile, OutInDir}
OutputDirArgs == {None, OutDir}

PathUniverse ==
    Inputs \cup {StagedPath(i) : i \in Inputs} \cup {OutFile, OutInDir}
        \cup {DerivedOutput(OutDir, i) : i \in Inputs}

(* ------------------------------ images --------------------------------- *)

Modes == {"RGB", "RGBA"}

\* filter parameters in tenths (radius 0.5 = 5, factor 1.2 = 12) or as given
GaussianBlur == [f |-> "GaussianBlur", a |-> 5, b |-> 0, c |-> 0]
UnsharpMask == [f |-> "UnsharpMask", a |-> 2, b |-> 150, c |-> 3]
ContrastUltra == [f |-> "Contrast", a |-> 14, b |-> 0, c |-> 0]
ColorUltra == [f |-> "Color", a |-> 11, b |-> 0, c |-> 0]
Sharpen == [f |-> "SHARPEN", a |-> 0, b |-> 0, c |-> 0]
ContrastStd == [f |-> "Contrast", a |-> 12, b |-> 0, c |-> 0]

NoImg == [mode |-> "none", bg |-> TRUE, filters |-> <<>>]
SourceImage(m) == [mode |-> m, bg |-> TRUE, filters |-> <<>>]

\* img.convert('RGBA')
ConvertRGBA(im) == [im EXCEPT !.mode = "RGBA"]

\* img.filter(...) / ImageEnhance.X(img).enhance(...)
ApplyFilter(im, flt) == [im EXCEPT !.filters = Append(@, flt)]

\* rembg.remove: the same picture with a transparent background, RGBA
RemoveBg(im) == [im EXCEPT !.mode = "RGBA", !.bg = FALSE]

\* the preprocessor filtering whatever enhance_edges says
preprocess_image_always(im, enhance_edges, ultra_quality) ==
    LET rgba == IF im.mode # "RGBA" THEN ConvertRGBA(im) ELSE im
    IN IF ultra_quality
       THEN ApplyFilter(ApplyFilter(ApplyFilter(ApplyFilter(rgba,
                GaussianBlur), UnsharpMask), ContrastUltra), ColorUltra)
       ELSE ApplyFilter(ApplyFilter(rgba, Sharpen), ContrastStd)

preprocess_image(im, enhance_edges, ultra_quality) ==
    LET rgba == IF im.mode # "RGBA" THEN ConvertRGBA(im) ELSE im
    IN IF enhance_edges
       THEN IF ultra_quality
            THEN ApplyFilter(ApplyFilter(ApplyFilter(ApplyFilter(rgba,
                     GaussianBlur), UnsharpMask), ContrastUltra), ColorUltra)
            ELSE ApplyFilter(ApplyFilter(rgba, Sharpen), ContrastStd)
       ELSE rgba

(* --------------------------- file contents ------------------------------ *)

Absent == [kind |-> "absent", img |-> NoImg, writer |-> 0]
Original(m) == [kind |-> "png", img |-> SourceImage(m), writer |-> 0]
Unrelated == [kind |-> "png", img |-> NoImg, writer |-> 0]
StagedBy(p, im) == [kind |-> "png", img |-> im, writer |-> p]
PartialBy(p) == [kind |-> "partial", img |-> NoImg, writer |-> p]
SvgBy(p, im) == [kind |-> "svg", img |-> im, writer |-> p]

Exists(f, path) == f[path].kind # "absent"

(* ------------------------------- state --------------------------------- *)

Procs == {1, 2}

VARIABLES
    fs,              \* path -> file content (the shared filesystem)
    dirs,            \* existing directories ("" is the working directory)
    fs0, dirs0,      \* the filesystem as the scenario started
    args,            \* per process: the parsed command line (argparse namespace)
    call,            \* per process: the arguments of convert_to_svg
    pc,              \* per process: position in main / convert_to_svg
    img,             \* per process: the working image (img / img_no_bg)
    temp_file,       \* per process: local temp_file (None until staged)
    processing_file, \* per process: local processing_file
    exc,             \* per process: the exception in flight ("none" if none)
    origExc,         \* per process: the first exception raised in the call
    trace,           \* per process: the operations performed, in order
    vlog,            \* per process: what each vectorizer invocation was given
    exitCode,        \* per process: -1 while running
    stderr           \* per process: lines written to the error stream

vars == <<fs, dirs, fs0, dirs0, args, call, pc, img, temp_file, processing_file,
          exc, origExc, trace, vlog, exitCode, stderr>>

local == <<img, temp_file, processing_file>>
disk == <<fs, dirs>>
start == <<fs0, dirs0, args>>

DefaultParams(cm) ==
    [colormode |-> cm, hierarchical |-> "stacked", mode |-> "spline",
     filter_speckle |-> 12, color_precision |-> 7, layer_difference |-> 32,
     corner_threshold |-> 60, length_threshold |-> 40, max_iterations |-> 10,
     splice_threshold |-> 45, path_precision |-> 8]

ColorModes == {"color", "binary"}

ArgSpace ==
    [input : Inputs, output : OutputArgs, output_dir : OutputDirArgs,
     keep_bg : BOOLEAN, no_enhance : BOOLEAN, ultra_quality : BOOLEAN,
     colormode : ColorModes]

NoArgs ==
    [input |-> None, output |-> None, output_dir |-> None, keep_bg |-> FALSE,
     no_enhance |-> FALSE, ultra_quality |-> FALSE, colormode |-> "color"]

NoCall ==
    [input_path |-> None, output_path |-> None, remove_background |-> FALSE,
     enhance_quality |-> FALSE, ultra_quality |-> FALSE,
     params |-> DefaultParams("color")]

\* main passing keep_bg itself as remove_background
CallOf_unnegated(a, output_path) ==
    [input_path |-> a.input, output_path |-> output_path,
     remove_background |-> a.keep_bg,
     enhance_quality |-> ~a.no_enhance,
     ultra_quality |-> a.ultra_quality,
     params |-> DefaultParams(a.colormode)]

\* the keyword arguments main passes to convert_to_svg
CallOf(a, output_path) ==
    [input_path |-> a.input, output_path |-> output_path,
     remove_background |-> ~a.keep_bg,
     enhance_quality |-> ~a.no_enhance,
     ultra_quality |-> a.ultra_quality,
     params |-> DefaultParams(a.colormode)]

\* a filesystem holding the existing inputs; a file already sitting at the
\* staged path of a.png is present or not
InitialFs(m, stale) ==
    [q \in PathUniverse |->
        IF q \in ExistingInputs THEN Original(m)
        ELSE IF stale /\ q = StagedPath(InLower) THEN Unrelated
        ELSE Absent]

InitCommon ==
    /\ fs = fs0
    /\ dirs = dirs0
    /\ img = [p \in Procs |-> NoImg]
    /\ temp_file = [p \in Procs |-> None]
    /\ processing_file = [p \in Procs |-> None]
    /\ exc = [p \in Procs |-> "none"]
    /\ origExc = [p \in Procs |-> "none"]
    /\ trace = [p \in Procs |-> <<>>]
    /\ vlog = [p \in Procs |-> <<>>]
    /\ exitCode = [p \in Procs |-> -1]
    /\ stderr = [p \in Procs |-> <<>>]

\* one process runs the command; the other never starts
Init ==
    /\ \E m \in Modes, stale \in BOOLEAN : fs0 = InitialFs(m, stale)
    /\ dirs0 = {None, NestedDir}
    /\ \E a \in ArgSpace : args = [p \in Procs |-> IF p = 1 THEN a ELSE NoArgs]
    /\ call = [p \in Procs |-> NoCall]
    /\ pc = [p \in Procs |-> IF p = 1 THEN "main" ELSE "idle"]
    /\ InitCommon

(* ------------------------------- main ---------------------------------- *)

Push(p, label) == trace' = [trace EXCEPT ![p] = Append(@, label)]

Exit(p, code, lines) ==
    /\ exitCode' = [exitCode EXCEPT ![p] = code]
    /\ stderr' = [stderr EXCEPT ![p] = @ \o lines]
    /\ pc' = [pc EXCEPT ![p] = "exit"]

\* lines 312-319 and 326-344: --output-dir given, os.makedirs succeeds
MainOutputDir(p) ==
    /\ pc[p] = "main"
    /\ args[p].output_dir # None
    /\ dirs' = dirs \cup {args[p].output_dir}
    /\ call' = [call EXCEPT ![p] =
                   CallOf(args[p], DerivedOutput(args[p].output_dir, args[p].input))]
    /\ pc' = [pc EXCEPT ![p] = "convert"]
    /\ Push(p, "main.makedirs")
    /\ UNCHANGED <<fs, start, local, exc, origExc, vlog, exitCode, stderr>>

\* line 314 raising outside any try: the interpreter prints the traceback to
\* the error stream and exits with status 1
MainOutputDirFails(p) ==
    /\ pc[p] = "main"
    /\ args[p].output_dir # None
    /\ args[p].output_dir \notin dirs
    /\ Exit(p, 1, << <<"Traceback", "OSError:makedirs">> >>)
    /\ UNCHANGED <<disk, start, call, local, exc, origExc, trace, vlog>>

\* lines 320-321 and 326-344: positional output given, no --output-dir
MainOutputArg(p) ==
    /\ pc[p] = "main"
    /\ args[p].output_dir = None
    /\ args[p].output # None
    /\ call' = [call EXCEPT ![p] = CallOf(args[p], args[p].output)]
    /\ pc' = [pc EXCEPT ![p] = "convert"]
    /\ UNCHANGED <<disk, start, local, exc, origExc, trace, vlog, exitCode, stderr>>

\* main going on to convert with no output path at all
MainUsageError_fallthrough(p) ==
    /\ pc[p] = "main"
    /\ args[p].output_dir = None
    /\ args[p].output = None
    /\ call' = [call EXCEPT ![p] = CallOf(args[p], None)]
    /\ pc' = [pc EXCEPT ![p] = "convert"]
    /\ UNCHANGED <<disk, start, local, exc, origExc, trace, vlog, exitCode, stderr>>

\* lines 322-324: neither given
MainUsageError(p) ==
    /\ pc[p] = "main"
    /\ args[p].output_dir = None
    /\ args[p].output = None
    /\ Exit(p, 1, << <<"Error", "usage">> >>)
    /\ UNCHANGED <<disk, start, call, local, exc, origExc, trace, vlog>>

\* falling off the end of main after convert_to_svg returned
MainReturn(p) ==
    /\ pc[p] = "caller"
    /\ exc[p] = "none"
    /\ Exit(p, 0, <<>>)
    /\ UNCHANGED <<disk, start, call, local, exc, origExc, trace, vlog>>

\* main reporting the error but exiting with status 0
MainExcept_status0(p) ==
    /\ pc[p] = "caller"
    /\ exc[p] # "none"
    /\ Exit(p, 0, << <<"Error", exc[p]>> >>)
    /\ UNCHANGED <<disk, start, call, local, exc, origExc, trace, vlog>>

\* lines 345-347
MainExcept(p) ==
    /\ pc[p] = "caller"
    /\ exc[p] # "none"
    /\ Exit(p, 1, << <<"Error", exc[p]>> >>)
    /\ UNCHANGED <<disk, start, call, local, exc, origExc, trace, vlog>>

(* --------------------------- convert_to_svg ---------------------------- *)

\* raise e: it becomes the exception in flight; control goes to `where`
Raise(p, e, where) ==
    /\ exc' = [exc EXCEPT ![p] = e]
    /\ origExc' = [origExc EXCEPT ![p] = IF @ = "none" THEN e ELSE @]
    /\ pc' = [pc EXCEPT ![p] = where]

Goto(p, where) ==
    /\ pc' = [pc EXCEPT ![p] = where]
    /\ UNCHANGED <<exc, origExc>>

\* convert_to_svg without the existence test
ValidateInput_unchecked(p) ==
    /\ pc[p] = "convert"
    /\ Push(p, "exists")
    /\ Goto(p, "mkdir")
    /\ UNCHANGED <<disk, start, call, local, vlog, exitCode, stderr>>

\* lines 107-109, before the try block
ValidateInput(p) ==
    /\ pc[p] = "convert"
    /\ Push(p, "exists")
    /\ IF Exists(fs, call[p].input_path)
       THEN Goto(p, "mkdir")
       ELSE Raise(p, "FileNotFoundError:input", "caller")
    /\ UNCHANGED <<disk, start, call, local, vlog, exitCode, stderr>>

NeedsOutputDir(p) ==
    LET output_dir == Dirname(call[p].output_path)
    IN output_dir # None /\ output_dir \notin dirs

\* lines 111-114, before the try block
EnsureOutputDir(p) ==
    /\ pc[p] = "mkdir"
    /\ IF NeedsOutputDir(p)
       THEN /\ dirs' = dirs \cup {Dirname(call[p].output_path)}
            /\ Push(p, "makedirs")
       ELSE UNCHANGED <<dirs, trace>>
    /\ Goto(p, "open")
    /\ UNCHANGED <<fs, start, call, local, vlog, exitCode, stderr>>

\* line 114 raising
EnsureOutputDirFails(p) ==
    /\ pc[p] = "mkdir"
    /\ NeedsOutputDir(p)
    /\ Push(p, "makedirs")
    /\ Raise(p, "OSError:makedirs", "caller")
    /\ UNCHANGED <<disk, start, call, local, vlog, exitCode, stderr>>

\* line 120; decoding is modelled at Image.open
OpenImage(p) ==
    /\ pc[p] = "open"
    /\ fs[call[p].input_path].kind = "png"
    /\ img' = [img EXCEPT ![p] = fs[call[p].input_path].img]
    /\ Push(p, "open")
    /\ Goto(p, "branch")
    /\ UNCHANGED <<disk, start, call, temp_file, processing_file, vlog, exitCode, stderr>>

\* line 120 raising
OpenImageFails(p) ==
    /\ pc[p] = "open"
    /\ Push(p, "open")
    /\ Raise(p, IF Exists(fs, call[p].input_path) THEN "UnidentifiedImageError"
                ELSE "FileNotFoundError:open", "except")
    /\ UNCHANGED <<disk, start, call, local, vlog, exitCode, stderr>>

\* lines 123-125
RemoveBackground(p) ==
    /\ pc[p] = "branch"
    /\ call[p].remove_background
    /\ img' = [img EXCEPT ![p] = RemoveBg(@)]
    /\ Push(p, "remove_bg")
    /\ Goto(p, IF call[p].enhance_quality THEN "preprocess" ELSE "save")
    /\ UNCHANGED <<disk, start, call, temp_file, processing_file, vlog, exitCode, stderr>>

\* line 125 raising
RemoveBackgroundFails(p) ==
    /\ pc[p] = "branch"
    /\ call[p].remove_background
    /\ Push(p, "remove_bg")
    /\ Raise(p, "RemoveError", "except")
    /\ UNCHANGED <<disk, start, call, local, vlog, exitCode, stderr>>

\* lines 128-129: enhance_edges keeps its default, True
PreprocessNoBg(p) ==
    /\ pc[p] = "preprocess"
    /\ img' = [img EXCEPT ![p] = preprocess_image(@, TRUE, call[p].ultra_quality)]
    /\ Push(p, "preprocess")
    /\ Goto(p, "save")
    /\ UNCHANGED <<disk, start, call, temp_file, processing_file, vlog, exitCode, stderr>>

\* lines 136-137: enhance_edges=False
PreprocessKeepBg(p) ==
    /\ pc[p] = "branch"
    /\ ~call[p].remove_background
    /\ call[p].enhance_quality
    /\ img' = [img EXCEPT ![p] = preprocess_image(@, FALSE, call[p].ultra_quality)]
    /\ Push(p, "preprocess")
    /\ Goto(p, "save")
    /\ UNCHANGED <<disk, start, call, temp_file, processing_file, vlog, exitCode, stderr>>

\* lines 141-142
UseInputDirectly(p) ==
    /\ pc[p] = "branch"
    /\ ~call[p].remove_background
    /\ ~call[p].enhance_quality
    /\ processing_file' = [processing_file EXCEPT ![p] = call[p].input_path]
    /\ Goto(p, "vectorize")
    /\ UNCHANGED <<disk, start, call, img, temp_file, trace, vlog, exitCode, stderr>>

\* staging, but handing the original input to the vectorizer
SaveStaged_input(p) ==
    LET staged == StagedPath(call[p].input_path)
    IN /\ pc[p] = "save"
       /\ Dirname(staged) \in dirs
       /\ temp_file' = [temp_file EXCEPT ![p] = staged]
       /\ fs' = [fs EXCEPT ![staged] = StagedBy(p, img[p])]
       /\ processing_file' = [processing_file EXCEPT ![p] = call[p].input_path]
       /\ Push(p, "save")
       /\ Goto(p, "vectorize")
       /\ UNCHANGED <<dirs, start, call, img, vlog, exitCode, stderr>>

\* staging without writing the file
SaveStaged_unwritten(p) ==
    LET staged == StagedPath(call[p].input_path)
    IN /\ pc[p] = "save"
       /\ Dirname(staged) \in dirs
       /\ temp_file' = [temp_file EXCEPT ![p] = staged]
       /\ processing_file' = [processing_file EXCEPT ![p] = staged]
       /\ Push(p, "save")
       /\ Goto(p, "vectorize")
       /\ UNCHANGED <<disk, start, call, img, vlog, exitCode, stderr>>

\* lines 132-134 and 138-140
SaveStaged(p) ==
    LET staged == StagedPath(call[p].input_path)
    IN /\ pc[p] = "save"
       /\ Dirname(staged) \in dirs
       /\ temp_file' = [temp_file EXCEPT ![p] = staged]
       /\ fs' = [fs EXCEPT ![staged] = StagedBy(p, img[p])]
       /\ processing_file' = [processing_file EXCEPT ![p] = staged]
       /\ Push(p, "save")
       /\ Goto(p, "vectorize")
       /\ UNCHANGED <<dirs, start, call, img, vlog, exitCode, stderr>>

\* lines 133 / 139 raising: temp_file is already assigned; the file is left
\* untouched or partly written
SaveStagedFails(p) ==
    LET staged == StagedPath(call[p].input_path)
    IN /\ pc[p] = "save"
       /\ temp_file' = [temp_file EXCEPT ![p] = staged]
       /\ \E partial \in BOOLEAN :
            fs' = IF partial /\ Dirname(staged) \in dirs
                  THEN [fs EXCEPT ![staged] = PartialBy(p)] ELSE fs
       /\ Push(p, "save")
       /\ Raise(p, IF Dirname(staged) \in dirs THEN "SaveError"
                   ELSE "FileNotFoundError:save", "except")
       /\ UNCHANGED <<dirs, start, call, img, processing_file, vlog, exitCode, stderr>>

Invocation(p) ==
    [src |-> processing_file[p], read |-> fs[processing_file[p]],
     out |-> call[p].output_path, params |-> call[p].params]

\* lines 146-160
Vectorize(p) ==
    /\ pc[p] = "vectorize"
    /\ fs[processing_file[p]].kind = "png"
    /\ fs' = [fs EXCEPT ![call[p].output_path] = SvgBy(p, fs[processing_file[p]].img)]
    /\ vlog' = [vlog EXCEPT ![p] = Append(@, Invocation(p))]
    /\ Push(p, "vectorize")
    /\ Goto(p, "finally")
    /\ UNCHANGED <<dirs, start, call, local, exitCode, stderr>>

\* line 146 raising
VectorizeFails(p) ==
    /\ pc[p] = "vectorize"
    /\ vlog' = [vlog EXCEPT ![p] = Append(@, Invocation(p))]
    /\ Push(p, "vectorize")
    /\ Raise(p, "VectorizeError", "except")
    /\ UNCHANGED <<disk, start, call, local, exitCode, stderr>>

\* the handler raising a generic error in place of the original
ExceptHandler_generic(p) ==
    /\ pc[p] = "except"
    /\ Push(p, "except")
    /\ Raise(p, "ConversionError", "finally")
    /\ UNCHANGED <<disk, start, call, local, vlog, exitCode, stderr>>

\* lines 164-166: report and re-raise the same exception
ExceptHandler(p) ==
    /\ pc[p] = "except"
    /\ Push(p, "except")
    /\ Goto(p, "finally")
    /\ UNCHANGED <<disk, start, call, local, vlog, exitCode, stderr>>

\* cleanup placed after the try block instead of in finally: it is skipped
\* when an exception is in flight
CleanupCheck_successonly(p) ==
    /\ pc[p] = "finally"
    /\ Push(p, "cleanup")
    /\ Goto(p, IF exc[p] = "none" /\ temp_file[p] # None /\ Exists(fs, temp_file[p])
               THEN "remove" ELSE "caller")
    /\ UNCHANGED <<disk, start, call, local, vlog, exitCode, stderr>>

\* line 170: the test of the finally block
CleanupCheck(p) ==
    /\ pc[p] = "finally"
    /\ Push(p, "cleanup")
    /\ Goto(p, IF temp_file[p] # None /\ Exists(fs, temp_file[p])
               THEN "remove" ELSE "caller")
    /\ UNCHANGED <<disk, start, call, local, vlog, exitCode, stderr>>

\* line 171: os.remove; it raises when the file vanished after the test,
\* and that exception replaces the one in flight
CleanupRemove(p) ==
    /\ pc[p] = "remove"
    /\ Push(p, "os.remove")
    /\ IF Exists(fs, temp_file[p])
       THEN /\ fs' = [fs EXCEPT ![temp_file[p]] = Absent]
            /\ Goto(p, "caller")
       ELSE /\ fs' = fs
            /\ Raise(p, "FileNotFoundError:remove", "caller")
    /\ UNCHANGED <<dirs, start, call, local, vlog, exitCode, stderr>>

(* --------------------------- specifications ---------------------------- *)

Convert(p) ==
    \/ ValidateInput(p)
    \/ EnsureOutputDir(p)
    \/ EnsureOutputDirFails(p)
    \/ OpenImage(p)
    \/ OpenImageFails(p)
    \/ RemoveBackground(p)
    \/ RemoveBackgroundFails(p)
    \/ PreprocessNoBg(p)
    \/ PreprocessKeepBg(p)
    \/ UseInputDirectly(p)
    \/ SaveStaged(p)
    \/ SaveStagedFails(p)
    \/ Vectorize(p)
    \/ VectorizeFails(p)
    \/ ExceptHandler(p)
    \/ CleanupCheck(p)
    \/ CleanupRemove(p)

Next ==
    \E p \in Procs :
        \/ MainOutputDir(p)
        \/ MainOutputDirFails(p)
        \/ MainOutputArg(p)
        \/ MainUsageError(p)
        \/ Convert(p)
        \/ MainReturn(p)
        \/ MainExcept(p)

Spec == Init /\ [][Next]_vars

\* two processes run the command at once on the same existing input, each
\* with a positional output of its own
ConcArgs(i, out, kb, ne) ==
    [input |-> i, output |-> out, output_dir |-> None, keep_bg |-> kb,
     no_enhance |-> ne, ultra_quality |-> FALSE, colormode |-> "color"]

InitConc ==
    /\ \E m \in Modes : fs0 = InitialFs(m, FALSE)
    /\ dirs0 = {None, NestedDir}
    /\ \E i \in {InLower, InUpper}, kb1, ne1, kb2, ne2 \in BOOLEAN :
          args = [p \in Procs |-> IF p = 1 THEN ConcArgs(i, OutFile, kb1, ne1)
                                  ELSE ConcArgs(i, OutInDir, kb2, ne2)]
    /\ call = [p \in Procs |-> NoCall]
    /\ pc = [p \in Procs |-> "main"]
    /\ InitCommon

NextConc ==
    \E p \in Procs :
        \/ MainOutputArg(p)
        \/ Convert(p)
        \/ MainReturn(p)
        \/ MainExcept(p)

SpecConc == InitConc /\ [][NextConc]_vars

(* ------------------------------ properties ----------------------------- *)

Has(p, label) == \E i \in 1..Len(trace[p]) : trace[p][i] = label

\* convert_to_svg was called by p and has returned or raised to main
ConvertEnded(p) == pc[p] \in {"caller", "exit"} /\ Has(p, "exists")

\* staging is requested in p's call
Staging(p) == call[p].remove_background \/ call[p].enhance_quality

\* the step an exception was raised by
FailedStep(e) ==
    CASE e = "FileNotFoundError:input" -> "exists"
      [] e = "OSError:makedirs" -> "makedirs"
      [] e \in {"UnidentifiedImageError", "FileNotFoundError:open"} -> "open"
      [] e = "RemoveError" -> "remove_bg"
      [] e \in {"SaveError", "FileNotFoundError:save"} -> "save"
      [] e = "VectorizeError" -> "vectorize"
      [] OTHER -> "os.remove"

AfterFailure == {"except", "cleanup", "os.remove"}

\* C1: when a call of convert_to_svg that reached staging (temp_file was
\* assigned, so remove_background or enhance_quality is true) has ended,
\* by return or by an exception of any step, no file exists at the staged
\* path.
C1_StagedFileRemoved ==
    \A p \in Procs :
        ConvertEnded(p) /\ temp_file[p] # None
            => /\ Staging(p)
               /\ ~Exists(fs, temp_file[p])

\* a staged file was written, the vectorizer raised, the file is gone
C1_Witness ==
    \E p \in Procs :
        /\ ConvertEnded(p)
        /\ Has(p, "save") /\ processing_file[p] = temp_file[p]
        /\ origExc[p] = "VectorizeError"
        /\ ~Exists(fs, temp_file[p])

\* C2: a call of convert_to_svg whose input path does not exist raises
\* FileNotFoundError from the existence test; the call performs nothing else
\* (no makedirs, no decode, no background removal, no vectorizer run), the
\* filesystem is untouched and no output file exists.
C2_MissingInputRejected ==
    \A p \in Procs :
        call[p] # NoCall /\ ~Exists(fs0, call[p].input_path)
            => /\ \A i \in 1..Len(trace[p]) : trace[p][i] \in {"main.makedirs", "exists"}
               /\ vlog[p] = <<>>
               /\ fs = fs0
               /\ ~Exists(fs, call[p].output_path)
               /\ Dirname(call[p].output_path) \in dirs
                     => \/ Dirname(call[p].output_path) \in dirs0
                        \/ Has(p, "main.makedirs")
               /\ Has(p, "exists")
                     => /\ exc[p] = "FileNotFoundError:input"
                        /\ pc[p] \in {"caller", "exit"}

\* the missing input was rejected although the output directory was yet to
\* be made
C2_Witness ==
    \E p \in Procs :
        /\ pc[p] = "exit"
        /\ call[p].input_path = InMissing
        /\ call[p].output_path = OutInDir
        /\ Dirname(OutInDir) \notin dirs
        /\ exc[p] = "FileNotFoundError:input"

\* C3: with --keep-bg the background remover is never invoked, whatever the
\* other options are.
C3_KeepBgNoRemover ==
    \A p \in Procs : args[p].keep_bg => ~Has(p, "remove_bg")

\* a --keep-bg run with enhancement went through to a successful exit
C3_Witness ==
    \E p \in Procs :
        /\ args[p].keep_bg /\ ~args[p].no_enhance
        /\ pc[p] = "exit" /\ exitCode[p] = 0
        /\ Len(vlog[p]) = 1

ReturnedNormally(p) == Has(p, "cleanup") /\ origExc[p] = "none"

\* C5: main exits with 0 exactly when convert_to_svg returned normally and
\* with 1 otherwise (missing input, missing output specification, an
\* exception during conversion, a failing makedirs), and every exit with 1
\* has written the error to the error stream.
C5_ExitCodeContract ==
    \A p \in Procs :
        pc[p] = "exit"
            => /\ exitCode[p] \in {0, 1}
               /\ exitCode[p] = 0 <=> ReturnedNormally(p)
               /\ exitCode[p] = 0 => stderr[p] = <<>>
               /\ exitCode[p] = 1
                     => \/ /\ call[p] = NoCall
                           /\ stderr[p] \in {<< <<"Error", "usage">> >>,
                                             << <<"Traceback", "OSError:makedirs">> >>}
                        \/ /\ call[p] # NoCall
                           /\ origExc[p] # "none"
                           /\ stderr[p] = << <<"Error", origExc[p]>> >>

\* the vectorizer raised and main exited with 1 and the message
C5_Witness ==
    \E p \in Procs :
        /\ pc[p] = "exit" /\ exitCode[p] = 1
        /\ origExc[p] = "VectorizeError"
        /\ stderr[p] = << <<"Error", "VectorizeError">> >>

C7_StagingIffRequested ==
    \A p \in Procs :
        /\ Has(p, "save") => Staging(p)
        /\ ~Staging(p) => temp_file[p] = None
        /\ pc[p] = "vectorize" => (Has(p, "save") <=> Staging(p))
        /\ \A i \in 1..Len(vlog[p]) :
              IF Staging(p)
              THEN /\ Has(p, "save")
                   /\ vlog[p][i].src = StagedPath(call[p].input_path)
                   /\ vlog[p][i].read = StagedBy(p, img[p])
              ELSE /\ ~Has(p, "save")
                   /\ vlog[p][i].src = call[p].input_path
                   /\ vlog[p][i].read = fs0[call[p].input_path]

\* enhancement alone staged a file at a path other than the input and the
\* vectorizer consumed it
C7_Witness ==
    \E p \in Procs :
        /\ ~call[p].remove_background /\ call[p].enhance_quality
        /\ Len(vlog[p]) = 1
        /\ vlog[p][1].src = StagedPath(InLower)
        /\ vlog[p][1].src # call[p].input_path
        /\ exitCode[p] = 0

UltraChain == <<GaussianBlur, UnsharpMask, ContrastUltra, ColorUltra>>
StandardChain == <<Sharpen, ContrastStd>>

\* C8: with enhancement on and background removal off, the preprocessed
\* image is the decoded input in RGBA with no filter applied, for either
\* value of ultra_quality; with both on, it is the background-removed image
\* with the ultra chain (blur 0.5, unsharp mask 2/150/3, contrast 1.4,
\* colour 1.1) or the standard chain (sharpen, contrast 1.2) according to
\* ultra_quality; the staged file holds that image.
C8_PreprocessorChain ==
    \A p \in Procs :
        Has(p, "preprocess")
            => LET decoded == fs0[call[p].input_path].img
               IN /\ IF call[p].remove_background
                     THEN img[p] = [mode |-> "RGBA", bg |-> FALSE,
                                    filters |-> IF call[p].ultra_quality
                                                THEN UltraChain ELSE StandardChain]
                     ELSE img[p] = [mode |-> "RGBA", bg |-> decoded.bg,
                                    filters |-> <<>>]
                  /\ pc[p] = "vectorize" => fs[temp_file[p]].img = img[p]

\* an RGB input, background kept, ultra quality asked: staged unfiltered
C8_Witness ==
    \E p \in Procs :
        /\ ~call[p].remove_background /\ call[p].enhance_quality
        /\ call[p].ultra_quality
        /\ fs0[call[p].input_path].img.mode = "RGB"
        /\ pc[p] = "vectorize"
        /\ fs[temp_file[p]] = StagedBy(p, [mode |-> "RGBA", bg |-> TRUE, filters |-> <<>>])

\* C9: two processes converting the same input share one staged path, and
\* they are not isolated: a vectorizer given the staged path can find it
\* missing, which happens only after the other process's os.remove, or
\* holding what the other process wrote, which happens only after the other
\* process's save.
C9_SharedStagedPath ==
    \A p \in Procs :
        /\ \A q \in Procs :
              temp_file[p] # None /\ temp_file[q] # None => temp_file[p] = temp_file[q]
        /\ \A i \in 1..Len(vlog[p]) :
              vlog[p][i].src = temp_file[p]
                 => /\ vlog[p][i].read.kind = "absent"
                          => \E q \in Procs \ {p} : Has(q, "os.remove")
                    /\ vlog[p][i].read.writer # p /\ vlog[p][i].read.kind # "absent"
                          => \E q \in Procs \ {p} :
                                /\ Has(q, "save")
                                /\ vlog[p][i].read.writer = q

\* both outcomes in one run: process 1 vectorized what process 2 staged, and
\* process 2's vectorizer found the staged file already removed
C9_Witness ==
    /\ Len(vlog[1]) = 1 /\ Len(vlog[2]) = 1
    /\ Has(1, "save") /\ Has(2, "save")
    /\ vlog[1][1].src = temp_file[1] /\ vlog[2][1].src = temp_file[2]
    /\ vlog[1][1].read.kind = "png" /\ vlog[1][1].read.writer = 2
    /\ vlog[2][1].read.kind = "absent"

\* C10: for every existing input path, the staged path differs from the
\* input path, and when convert_to_svg has ended the input file still exists
\* with its contents unchanged.
C10_InputPreserved ==
    \A p \in Procs :
        /\ temp_file[p] # None => temp_file[p] # call[p].input_path
        /\ ConvertEnded(p) /\ Exists(fs0, call[p].input_path)
              => fs[call[p].input_path] = fs0[call[p].input_path]

====
